---- MODULE Spec2Model ----
(***************************************************************************)
(* Model of clean-html (src/main.py): the pipeline of clean_html over a    *)
(* parsed BeautifulSoup tree.  The tree is an arena: a function from node  *)
(* identifiers to nodes, node 0 being the BeautifulSoup object (the root). *)
(* A node that is detached from the tree leaves the arena's domain.        *)
(* Strings are sequences of one-character strings.                         *)
(***************************************************************************)
EXTENDS Integers, Sequences, FiniteSets, TLC

VARIABLES args, html, soup, pc, mutations

vars == <<args, html, soup, pc, mutations>>

\* Largest number of nodes (the root not counted) of an input document.
MaxNodes == 4

----------------------------------------------------------------------------
(* The parsed tree                                                         *)

Root == 0

NoAttrs == [k \in {} |-> ""]

\* isinstance(c, NavigableString): Comment is a subclass of NavigableString.
IsNavigableString(node) == node.type \in {"NavigableString", "Comment"}

\* isinstance(c, Comment)
IsComment(node) == node.type = "Comment"

\* isinstance(c, Tag), for the children of a node
IsTag(node) == node.type = "Tag"

\* The characters str.strip() removes.
IsSpace(ch) == ch \in {" ", "\n", "\t"}

RECURSIVE LStrip(_)
LStrip(s) == IF s # <<>> /\ IsSpace(Head(s)) THEN LStrip(Tail(s)) ELSE s

RECURSIVE RStrip(_)
RStrip(s) ==
    IF s # <<>> /\ IsSpace(s[Len(s)]) THEN RStrip(SubSeq(s, 1, Len(s) - 1)) ELSE s

\* str.strip()
Strip(s) == RStrip(LStrip(s))

\* The nodes below the nodes of ids, in document order (Tag.descendants).
RECURSIVE Descendants(_, _)
Descendants(s, ids) ==
    IF ids = <<>> THEN <<>>
    ELSE <<Head(ids)>> \o Descendants(s, s[Head(ids)].contents)
                       \o Descendants(s, Tail(ids))

SeqToSet(q) == {q[i] : i \in 1..Len(q)}

\* soup.find_all(True): every Tag of the tree, in document order.
FindAllTags(s) ==
    SelectSeq(Descendants(s, s[Root].contents), LAMBDA id : IsTag(s[id]))

\* soup.find_all(name): every Tag of that name, in document order.
FindAllNamed(s, name) ==
    SelectSeq(FindAllTags(s), LAMBDA id : s[id].name = name)

\* soup.find_all(string=lambda t: isinstance(t, Comment))
FindAllComments(s) ==
    SelectSeq(Descendants(s, s[Root].contents), LAMBDA id : IsComment(s[id]))

\* node.parent
Parent(s, id) ==
    CHOOSE p \in DOMAIN s : \E i \in 1..Len(s[p].contents) : s[p].contents[i] = id

\* parent.index(node)
IndexOf(q, id) == CHOOSE i \in 1..Len(q) : q[i] = id

Restrict(s, keep) == [id \in keep |-> s[id]]

\* The test of the loop of _significant_children: a NavigableString (a
\* Comment is one) whose strip() is empty is skipped.
Insignificant(node) == IsNavigableString(node) /\ Strip(node.string) = <<>>

_significant_children(s, tag) ==
    SelectSeq(s[tag].contents, LAMBDA c : ~Insignificant(s[c]))

\* PageElement.extract() followed by the loss of the subtree: the node and
\* everything below it leave the tree.  A node that is no longer in the tree
\* has no parent, and extracting it again changes nothing.
Detach(s, id) ==
    IF id \notin DOMAIN s THEN s
    ELSE LET p    == Parent(s, id)
             gone == {id} \cup SeqToSet(Descendants(s, s[id].contents))
             left == SelectSeq(s[p].contents, LAMBDA c : c # id)
         IN  Restrict([s EXCEPT ![p].contents = left], DOMAIN s \ gone)

\* Mutant of Decompose: the children of the tag are reattached to its parent.
Decompose_Reattach(s, id) ==
    IF id \notin DOMAIN s THEN s
    ELSE LET p   == Parent(s, id)
             q   == s[p].contents
             i   == IndexOf(q, id)
             new == SubSeq(q, 1, i - 1) \o s[id].contents \o SubSeq(q, i + 1, Len(q))
         IN  Restrict([s EXCEPT ![p].contents = new], DOMAIN s \ {id})

\* Tag.decompose()
Decompose(s, id) == Detach(s, id)

\* PageElement.extract()
Extract(s, id) == Detach(s, id)

RECURSIVE Reverse(_)
Reverse(q) == IF q = <<>> THEN <<>> ELSE Reverse(Tail(q)) \o <<Head(q)>>

\* Mutant of Unwrap: the contents are inserted without reversed().
Unwrap_Reversed(s, id) ==
    LET p   == Parent(s, id)
        q   == s[p].contents
        i   == IndexOf(q, id)
        new == SubSeq(q, 1, i - 1) \o Reverse(s[id].contents)
                                   \o SubSeq(q, i + 1, Len(q))
    IN  Restrict([s EXCEPT ![p].contents = new], DOMAIN s \ {id})

\* Mutant of Unwrap: only the significant children take the tag's place.
Unwrap_DropBlank(s, id) ==
    LET p    == Parent(s, id)
        q    == s[p].contents
        i    == IndexOf(q, id)
        kids == _significant_children(s, id)
        new  == SubSeq(q, 1, i - 1) \o kids \o SubSeq(q, i + 1, Len(q))
        gone == {id} \cup (SeqToSet(s[id].contents) \ SeqToSet(kids))
    IN  Restrict([s EXCEPT ![p].contents = new], DOMAIN s \ gone)

\* Tag.unwrap(): the tag is replaced, at its index, by all of its contents.
Unwrap(s, id) ==
    LET p   == Parent(s, id)
        q   == s[p].contents
        i   == IndexOf(q, id)
        new == SubSeq(q, 1, i - 1) \o s[id].contents \o SubSeq(q, i + 1, Len(q))
    IN  Restrict([s EXCEPT ![p].contents = new], DOMAIN s \ {id})

----------------------------------------------------------------------------
(* _significant_children, minimize_nesting, remove_empty_tags              *)

\* Mutant of Unwrappable: the test of tag.attrs is missing.
Unwrappable_IgnoreAttrs(s, tag, same_name_only) ==
    LET kids == _significant_children(s, tag)
    IN  /\ Len(kids) = 1
        /\ IsTag(s[kids[1]])
        /\ ~(same_name_only /\ s[kids[1]].name # s[tag].name)

\* The test of one tag in the scan of minimize_nesting.
Unwrappable(s, tag, same_name_only) ==
    LET kids == _significant_children(s, tag)
    IN  /\ Len(kids) = 1
        /\ IsTag(s[kids[1]])
        /\ DOMAIN s[tag].attrs = {}
        /\ ~(same_name_only /\ s[kids[1]].name # s[tag].name)

UnwrapCandidates(s, same_name_only) ==
    SelectSeq(FindAllTags(s), LAMBDA t : Unwrappable(s, t, same_name_only))

\* One iteration of the while loop of minimize_nesting: the first tag of the
\* scan that passes the tests is unwrapped and the scan is left.
MinimizeScan(s, same_name_only) ==
    LET c == UnwrapCandidates(s, same_name_only)
    IN  IF c = <<>> THEN s ELSE Unwrap(s, c[1])

RECURSIVE minimize_nesting(_, _)
minimize_nesting(s, same_name_only) ==
    IF UnwrapCandidates(s, same_name_only) = <<>> THEN s
    ELSE minimize_nesting(MinimizeScan(s, same_name_only), same_name_only)

\* Mutant of IsEmptyTag: tag.contents is tested, whitespace text counts.
IsEmptyTag_NoContents(s, tag) == s[tag].contents = <<>>

\* Mutant of IsEmptyTag: a tag with attributes is kept.
IsEmptyTag_AttrsProtect(s, tag) ==
    _significant_children(s, tag) = <<>> /\ DOMAIN s[tag].attrs = {}

\* The test of one tag in the scan of remove_empty_tags.
IsEmptyTag(s, tag) == _significant_children(s, tag) = <<>>

EmptyCandidates(s) == SelectSeq(FindAllTags(s), LAMBDA t : IsEmptyTag(s, t))

\* One iteration of the while loop of remove_empty_tags.
EmptyScan(s) ==
    LET c == EmptyCandidates(s)
    IN  IF c = <<>> THEN s ELSE Decompose(s, c[1])

RECURSIVE remove_empty_tags(_)
remove_empty_tags(s) ==
    IF EmptyCandidates(s) = <<>> THEN s ELSE remove_empty_tags(EmptyScan(s))

----------------------------------------------------------------------------
(* The passes of clean_html                                                *)

RECURSIVE DecomposeAll(_, _)
DecomposeAll(s, found) ==
    IF found = <<>> THEN s
    ELSE DecomposeAll(Decompose(s, Head(found)), Tail(found))

\* for name in args.remove_tag: for t in soup.find_all(name): t.decompose()
RECURSIVE RemoveTags(_, _)
RemoveTags(s, names) ==
    IF names = <<>> THEN s
    ELSE RemoveTags(DecomposeAll(s, FindAllNamed(s, Head(names))), Tail(names))

RECURSIVE ExtractAll(_, _)
ExtractAll(s, found) ==
    IF found = <<>> THEN s
    ELSE ExtractAll(Extract(s, Head(found)), Tail(found))

\* if args.remove_comments: every Comment is extracted
RemoveComments(s, remove_comments) ==
    IF remove_comments THEN ExtractAll(s, FindAllComments(s)) ELSE s

\* Mutant of FilterAttrs: the test of the comprehension is inverted.
FilterAttrs_Inverted(attrs, keep) == [k \in DOMAIN attrs \ keep |-> attrs[k]]

\* {k: v for k, v in tag.attrs.items() if k in keep}
FilterAttrs(attrs, keep) == [k \in DOMAIN attrs \cap keep |-> attrs[k]]

\* keep = set(args.keep_attr or []); every tag keeps only those attributes
StripAttrs(s, keep_attr) ==
    LET keep == SeqToSet(keep_attr)
    IN  [id \in DOMAIN s |->
            IF IsTag(s[id])
            THEN [s[id] EXCEPT !.attrs = FilterAttrs(s[id].attrs, keep)]
            ELSE s[id]]

\* The tree clean_html hands to minimize_nesting, for a parsed tree s.
BeforeNesting(s, a) ==
    StripAttrs(RemoveComments(RemoveTags(s, a.remove_tag), a.remove_comments),
               a.keep_attr)

\* The tree clean_html serialises, for a parsed tree s.
CleanTree(s, a) ==
    LET s3 == BeforeNesting(s, a)
        s4 == IF a.minimize_nesting THEN minimize_nesting(s3, a.same_name_only) ELSE s3
    IN  IF a.remove_empty THEN remove_empty_tags(s4) ELSE s4

----------------------------------------------------------------------------
(* Input documents and configurations                                      *)

Tag(name, attrs) ==
    [type |-> "Tag", name |-> name, attrs |-> attrs, string |-> <<>>]

Text(string) ==
    [type |-> "NavigableString", name |-> "", attrs |-> NoAttrs, string |-> string]

Comment(string) ==
    [type |-> "Comment", name |-> "", attrs |-> NoAttrs, string |-> string]

RECURSIVE AncestorsOrSelf(_, _)
AncestorsOrSelf(par, j) ==
    IF j = 0 THEN {0} ELSE {j} \cup AncestorsOrSelf(par, par[j])

\* The shapes of the ordered trees of n nodes below the root, the nodes being
\* numbered in document order: par[i] is the parent of node i.
Shapes(n) ==
    {par \in [1..n -> 0..(n - 1)] :
        \A i \in 1..n : /\ par[i] < i
                        /\ i > 1 => par[i] \in AncestorsOrSelf(par, i - 1)}

\* Only a Tag has children.
Labellings(n, par, labels) ==
    {lab \in [1..n -> labels] :
        \A i \in 1..n : par[i] # 0 => lab[par[i]].type = "Tag"}

KidsOf(n, par, p) == SelectSeq([i \in 1..n |-> i], LAMBDA i : par[i] = p)

\* BeautifulSoup(html_content, args.parser)
BeautifulSoup(n, par, lab) ==
    [id \in 0..n |->
        IF id = Root
        THEN [type |-> "BeautifulSoup", name |-> "[document]", attrs |-> NoAttrs,
              string |-> <<>>, contents |-> KidsOf(n, par, Root)]
        ELSE [type |-> lab[id].type, name |-> lab[id].name, attrs |-> lab[id].attrs,
              string |-> lab[id].string, contents |-> KidsOf(n, par, id)]]

\* The defaults of parse_args.
DefaultArgs ==
    [remove_tag       |-> <<"style", "span", "meta", "script">>,
     keep_attr        |-> <<"href", "src", "alt">>,
     remove_comments  |-> TRUE,
     same_name_only   |-> TRUE,
     minimize_nesting |-> TRUE,
     remove_empty     |-> TRUE]

Hi == <<"H", "i">>
Blank == <<"\n", " ">>

\* Documents that exercise the Wrapper Collapser and the Empty Element Pruner,
\* under each setting of --same-name-only, --minimize-nesting, --remove-empty.
NestingLabels ==
    {Tag("div", NoAttrs), Tag("p", NoAttrs), Tag("div", "href" :> <<"u">>),
     Text(Hi), Text(Blank)}

NestingArgs ==
    {[DefaultArgs EXCEPT !.same_name_only = b, !.minimize_nesting = f[1],
                         !.remove_empty = f[2]] :
        b \in BOOLEAN, f \in {<<TRUE, TRUE>>, <<FALSE, TRUE>>, <<TRUE, FALSE>>}}

\* Documents that exercise the Tag Remover, the Comment Remover and the
\* Attribute Filter, under several --remove-comments and --keep-attr settings.
FilterLabels ==
    {Tag("div", NoAttrs), Tag("script", NoAttrs),
     Tag("div", ("class" :> <<"x">>) @@ ("href" :> <<"u">>)),
     Text(Hi), Comment(<<" ", "n", " ">>), Comment(<<" ">>)}

FilterArgs ==
    {DefaultArgs,
     [DefaultArgs EXCEPT !.remove_comments = FALSE],
     [DefaultArgs EXCEPT !.keep_attr = <<>>],
     [DefaultArgs EXCEPT !.keep_attr = <<"href", "src", "alt", "class">>]}

Families ==
    {[labels |-> NestingLabels, args |-> NestingArgs],
     [labels |-> FilterLabels, args |-> FilterArgs]}

\* Scenario C of the specification: <p><script>x</script></p>
ScenarioC ==
    BeautifulSoup(3, <<0, 1, 2>>,
                  <<Tag("p", NoAttrs), Tag("script", NoAttrs), Text(<<"x">>)>>)

\* Scenario D of the specification: <div class="x"><div>Hi</div></div>
ScenarioD ==
    BeautifulSoup(3, <<0, 1, 2>>,
                  <<Tag("div", "class" :> <<"x">>), Tag("div", NoAttrs), Text(Hi)>>)

Scenarios == {ScenarioC, ScenarioD}

----------------------------------------------------------------------------
(* clean_html as a state machine                                           *)

Generated ==
    \E fam \in Families : \E n \in 0..MaxNodes : \E par \in Shapes(n) :
        \E lab \in Labellings(n, par, fam.labels) : \E a \in fam.args :
            /\ args = a
            /\ html = BeautifulSoup(n, par, lab)

Init ==
    /\ \/ Generated
       \/ \E doc \in Scenarios : \E a \in FilterArgs : args = a /\ html = doc
    /\ soup = html
    /\ pc = "remove_tags"
    /\ mutations = 0

RemoveTagsStep ==
    /\ pc = "remove_tags"
    /\ soup' = RemoveTags(soup, args.remove_tag)
    /\ pc' = "remove_comments"
    /\ UNCHANGED <<args, html, mutations>>

RemoveCommentsStep ==
    /\ pc = "remove_comments"
    /\ soup' = RemoveComments(soup, args.remove_comments)
    /\ pc' = "strip_attrs"
    /\ UNCHANGED <<args, html, mutations>>

StripAttrsStep ==
    /\ pc = "strip_attrs"
    /\ soup' = StripAttrs(soup, args.keep_attr)
    /\ pc' = "minimize_nesting"
    /\ UNCHANGED <<args, html, mutations>>

\* if args.minimize_nesting: one iteration of the while loop of
\* minimize_nesting; the loop is left when a scan unwraps nothing.
MinimizeNestingStep ==
    /\ pc = "minimize_nesting"
    /\ IF args.minimize_nesting /\ UnwrapCandidates(soup, args.same_name_only) # <<>>
       THEN /\ soup' = MinimizeScan(soup, args.same_name_only)
            /\ mutations' = mutations + 1
            /\ pc' = pc
       ELSE /\ soup' = soup
            /\ mutations' = 0
            /\ pc' = "remove_empty_tags"
    /\ UNCHANGED <<args, html>>

\* if args.remove_empty: one iteration of the while loop of remove_empty_tags.
RemoveEmptyStep ==
    /\ pc = "remove_empty_tags"
    /\ IF args.remove_empty /\ EmptyCandidates(soup) # <<>>
       THEN /\ soup' = EmptyScan(soup)
            /\ mutations' = mutations + 1
            /\ pc' = pc
       ELSE /\ soup' = soup
            /\ mutations' = mutations
            /\ pc' = "done"
    /\ UNCHANGED <<args, html>>

Next ==
    \/ RemoveTagsStep
    \/ RemoveCommentsStep
    \/ StripAttrsStep
    \/ MinimizeNestingStep
    \/ RemoveEmptyStep

Spec == Init /\ [][Next]_vars

\* Documents of nested div elements, text and whitespace, of fewer than
\* MaxNodes nodes: the inputs of the termination property.
TerminationLabels == {Tag("div", NoAttrs), Text(Hi), Text(Blank)}

TerminationInit ==
    /\ \E n \in 0..(MaxNodes - 1) : \E par \in Shapes(n) :
          \E lab \in Labellings(n, par, TerminationLabels) :
              /\ args = DefaultArgs
              /\ html = BeautifulSoup(n, par, lab)
    /\ soup = html
    /\ pc = "remove_tags"
    /\ mutations = 0

\* clean_html is straight-line code that runs to its return: a step that can
\* be taken is taken.
TerminationSpec == TerminationInit /\ [][Next]_vars /\ WF_vars(Next)

\* minimize_nesting with the scan order left open: an iteration of the while
\* loop unwraps any one tag that passes the tests of the scan.
UnwrapAnyStep ==
    /\ pc = "minimize_nesting"
    /\ IF args.minimize_nesting /\ UnwrapCandidates(soup, args.same_name_only) # <<>>
       THEN /\ \E t \in SeqToSet(UnwrapCandidates(soup, args.same_name_only)) :
                  soup' = Unwrap(soup, t)
            /\ mutations' = mutations + 1
            /\ pc' = pc
       ELSE /\ soup' = soup
            /\ mutations' = 0
            /\ pc' = "remove_empty_tags"
    /\ UNCHANGED <<args, html>>

AnyOrderNext ==
    \/ RemoveTagsStep
    \/ RemoveCommentsStep
    \/ StripAttrsStep
    \/ UnwrapAnyStep
    \/ RemoveEmptyStep

AnyOrderSpec == Init /\ [][AnyOrderNext]_vars

----------------------------------------------------------------------------
(* Properties                                                              *)

Tags(s) == {id \in DOMAIN s : IsTag(s[id])}

\* The number of nodes of a tree, the root not counted.
Size(s) == Cardinality(DOMAIN s) - 1

Keep == SeqToSet(args.keep_attr)

Removed == SeqToSet(args.remove_tag)

\* The nodes of the input that are a Tag named in remove_tag or lie below one.
RECURSIVE UnderRemoved(_)
UnderRemoved(id) ==
    /\ id # Root
    /\ \/ IsTag(html[id]) /\ html[id].name \in Removed
       \/ UnderRemoved(Parent(html, id))

\* A text or comment node whose payload is not all whitespace.
HasContent(node) == IsNavigableString(node) /\ Strip(node.string) # <<>>

\* C1 (as claimed): when clean_html has run, running its pipeline again on
\* the resulting tree, with the same configuration, leaves the tree as it is.
C1_Idempotent == pc = "done" => CleanTree(soup, args) = soup

\* C4: when remove_empty_tags has returned, no Tag of the tree is without a
\* significant child and the root (the BeautifulSoup object) is still there,
\* also when the document was empty or every Tag was deleted.
C4_PrunerPostcondition ==
    (pc = "done" /\ args.remove_empty) =>
        /\ Root \in DOMAIN soup
        /\ soup[Root].type = "BeautifulSoup"
        /\ \A t \in Tags(soup) : _significant_children(soup, t) # <<>>

\* Scenario C: the cascade has deleted every Tag and the root alone is left.
C4_Witness ==
    /\ html = ScenarioC
    /\ pc = "done"
    /\ mutations = 1
    /\ DOMAIN soup = {Root}

\* C5: from the Attribute Filter on, every Tag has only attributes named in
\* keep_attr, each with the value it had in the input; with an empty
\* keep_attr no Tag has an attribute.
C5_AttrsWithinKeep ==
    pc \in {"minimize_nesting", "remove_empty_tags", "done"} =>
        \A t \in Tags(soup) :
            /\ DOMAIN soup[t].attrs \subseteq Keep
            /\ \A k \in DOMAIN soup[t].attrs :
                  k \in DOMAIN html[t].attrs /\ soup[t].attrs[k] = html[t].attrs[k]
            /\ Keep = {} => DOMAIN soup[t].attrs = {}

\* A Tag of the output has lost one attribute to the filter and kept another.
C5_Witness ==
    /\ pc = "done"
    /\ \E t \in Tags(soup) :
          /\ DOMAIN soup[t].attrs # {}
          /\ DOMAIN soup[t].attrs # DOMAIN html[t].attrs

\* C6: from the Tag Remover on, no Tag of the tree is named in remove_tag,
\* and no node that was below such a Tag in the input is in the tree (the
\* subtree goes with the Tag, also below a nested match).
C6_NoRemovedTags ==
    pc # "remove_tags" =>
        /\ \A t \in Tags(soup) : soup[t].name \notin Removed
        /\ \A id \in DOMAIN html \ {Root} : UnderRemoved(id) => id \notin DOMAIN soup

\* A removed Tag nested in a removed Tag, with a node below it and a node
\* beside the outer one that stays.
C6_Witness ==
    /\ pc = "done"
    /\ \E a, b, c \in DOMAIN html \ {Root} :
          /\ IsTag(html[a]) /\ html[a].name \in Removed
          /\ IsTag(html[b]) /\ html[b].name \in Removed
          /\ Parent(html, b) = a
          /\ Parent(html, c) = b
    /\ Size(soup) > 0

\* C10: when remove_empty_tags has returned, every Tag of the tree has a
\* descendant that is a text or comment node with a payload that is not all
\* whitespace; a Tag that had no children is deleted, whatever its attributes.
C10_TagsHaveContent ==
    (pc = "done" /\ args.remove_empty) =>
        /\ \A t \in Tags(soup) :
              \E d \in SeqToSet(Descendants(soup, soup[t].contents)) :
                  HasContent(soup[d])
        /\ \A t \in Tags(html) : html[t].contents = <<>> => t \notin DOMAIN soup

\* A childless Tag whose attribute passed the Attribute Filter was deleted,
\* while another Tag stays.
C10_Witness ==
    /\ pc = "done"
    /\ args.remove_empty
    /\ \E t \in Tags(html) :
          /\ html[t].contents = <<>>
          /\ DOMAIN html[t].attrs # {}
          /\ DOMAIN html[t].attrs \subseteq Keep
          /\ t \notin DOMAIN soup
    /\ Tags(soup) # {}

\* C3 (as claimed): for Scenario D under the default configuration the outer
\* div is never unwrapped: the output has the nesting of the input, changed
\* only by the Attribute Filter.
C3_ScenarioD_Original ==
    (html = ScenarioD /\ args = DefaultArgs /\ pc = "done") =>
        soup = StripAttrs(html, args.keep_attr)

\* C3 (amended): for Scenario D the Attribute Filter runs before the Wrapper
\* Collapser; under the default keep_attr it removes class, the outer div is
\* left without attributes and is unwrapped, and the output is the inner div
\* containing "Hi" directly below the root.  The nesting of the input is kept
\* only when class is in keep_attr.
C3_ScenarioD ==
    (html = ScenarioD /\ pc = "done") =>
        IF "class" \in Keep
        THEN soup = html
        ELSE /\ DOMAIN soup = {Root, 2, 3}
             /\ soup[Root].contents = <<2>>
             /\ soup[2] = html[2]
             /\ soup[3] = html[3]

\* Scenario D has run under the default configuration and lost its outer div.
C3_Witness ==
    /\ html = ScenarioD
    /\ args = DefaultArgs
    /\ pc = "done"
    /\ 1 \notin DOMAIN soup

\* C2: whichever passing tag each iteration unwraps, the tree in which no tag
\* passes the tests any more is the tree minimize_nesting reaches in document
\* order from the tree it was handed.
C2_OrderIndependent ==
    (/\ pc = "minimize_nesting"
     /\ args.minimize_nesting
     /\ UnwrapCandidates(soup, args.same_name_only) = <<>>) =>
        soup = minimize_nesting(BeforeNesting(html, args), args.same_name_only)

\* Several tags passed the tests at once, whitespace text was among the
\* contents spliced, and the fixed point was reached after several unwraps.
C2_Witness ==
    /\ pc = "minimize_nesting"
    /\ mutations >= 2
    /\ UnwrapCandidates(soup, args.same_name_only) = <<>>
    /\ Len(UnwrapCandidates(BeforeNesting(html, args), args.same_name_only)) >= 2
    /\ \E t \in Tags(html) \ DOMAIN soup : \E w \in SeqToSet(html[t].contents) :
          Insignificant(html[w])

\* An iteration of minimize_nesting that unwraps, one of remove_empty_tags
\* that deletes.
UnwrapTaken == pc = "minimize_nesting" /\ soup' # soup

DeleteTaken == pc = "remove_empty_tags" /\ soup' # soup

\* C7: every unwrap takes exactly one node from the tree, every deletion at
\* least one, and no step adds a node; a loop has made no more mutations than
\* the nodes that are gone; clean_html reaches its return.
C7_ShrinksAndTerminates ==
    /\ [][/\ Size(soup') <= Size(soup)
          /\ UnwrapTaken => Size(soup') = Size(soup) - 1
          /\ DeleteTaken => Size(soup') < Size(soup)]_vars
    /\ [](mutations + Size(soup) <= Size(html))
    /\ <>(pc = "done")

\* Both loops have made mutations: a tag was unwrapped (a child of it is
\* still in the tree) and remove_empty_tags has deleted since.
C7_Witness ==
    /\ pc = "done"
    /\ mutations >= 1
    /\ \E t \in Tags(html) \ DOMAIN soup :
          \E c \in SeqToSet(html[t].contents) : c \in DOMAIN soup

\* The tag that the scan of minimize_nesting unwraps, its sole significant
\* child and its parent.
Wrapper == UnwrapCandidates(soup, args.same_name_only)[1]

SoleChild == _significant_children(soup, Wrapper)[1]

Splice(q, i, r) == SubSeq(q, 1, i - 1) \o r \o SubSeq(q, i + 1, Len(q))

\* C8 (as claimed): an unwrap puts the sole significant child alone in the
\* place of the wrapper, the wrapper's insignificant children leave the tree,
\* and the child keeps its attributes and children.
C8_Unwrap_Original ==
    [][UnwrapTaken =>
          LET p == Parent(soup, Wrapper)
              q == soup[p].contents
          IN  /\ Wrapper \notin DOMAIN soup'
              /\ soup'[p].contents = Splice(q, IndexOf(q, Wrapper), <<SoleChild>>)
              /\ \A w \in SeqToSet(soup[Wrapper].contents) \ {SoleChild} :
                    w \notin DOMAIN soup'
              /\ soup'[SoleChild] = soup[SoleChild]]_vars

\* C8 (amended): an unwrap puts all the children of the wrapper, in their
\* order, in the place of the wrapper: the sole significant child and, around
\* it, the wrapper's whitespace-only text, which stays in the tree.  No other
\* node changes.
C8_Unwrap ==
    [][UnwrapTaken =>
          LET p == Parent(soup, Wrapper)
              q == soup[p].contents
          IN  /\ DOMAIN soup' = DOMAIN soup \ {Wrapper}
              /\ soup'[p].contents =
                    Splice(q, IndexOf(q, Wrapper), soup[Wrapper].contents)
              /\ \A id \in DOMAIN soup' \ {p} : soup'[id] = soup[id]
              /\ soup'[p].attrs = soup[p].attrs]_vars

\* A wrapper with whitespace text beside its sole significant child has been
\* unwrapped.
C8_Witness ==
    /\ pc = "minimize_nesting"
    /\ mutations >= 1
    /\ \E t \in Tags(html) \ DOMAIN soup :
          /\ Len(html[t].contents) >= 2
          /\ \E w \in SeqToSet(html[t].contents) : Insignificant(html[w])

OnlyAComment(s, t) == Len(s[t].contents) = 1 /\ IsComment(s[s[t].contents[1]])

ATagAndAComment(s, t) ==
    /\ Len(s[t].contents) = 2
    /\ \E i, j \in 1..2 : IsTag(s[s[t].contents[i]]) /\ IsComment(s[s[t].contents[j]])

\* C9 (as claimed): every Comment is significant, so with remove_comments
\* disabled remove_empty_tags never deletes a Tag whose only child is a
\* Comment and minimize_nesting never unwraps a Tag with one Tag child and
\* one Comment child.
C9_CommentsSignificant ==
    [][~args.remove_comments =>
          /\ pc = "remove_empty_tags" =>
                \A t \in Tags(soup) : OnlyAComment(soup, t) => t \in DOMAIN soup'
          /\ pc = "minimize_nesting" =>
                \A t \in Tags(soup) : ATagAndAComment(soup, t) => t \in DOMAIN soup'
      ]_vars

====
